---- MODULE Spec2Model ----
(***************************************************************************)
(* RecruitmentFlow (src/agents/workflows/recruitment_flow.py): the flow    *)
(* table, the FlowContext objects and the operations start_flow,           *)
(* execute_flow, resume_flow and get_flow_status.  The five collaborators  *)
(* (pdf_parser, enricher, analyzer, scorer, notifier) are duck-typed       *)
(* objects: each call of one returns a value or raises, chosen freely.     *)
(* Scores are floats in the source; here they are hundredths (0.7 = 70).   *)
(*                                                                         *)
(* The approval gates (src/agents/workflows/approval_gates.py): the gates  *)
(* create_default_gates registers, GateChain and ManualReviewGate's        *)
(* submit_review.  RecruitmentFlow does not call them; they have their own *)
(* specification, GateSpec.                                                *)
(*                                                                         *)
(* Storage (src/agents/pipeline_manager.py), the JSONL file with append,   *)
(* load_all and upsert, and RecruitmentPipeline (src/workflows/pipeline.py)*)
(* with its candidates table have the specifications StorageSpec and       *)
(* PipelineSpec.  RaceSpec runs two resume_flow calls on two threads,      *)
(* statement by statement.                                                 *)
(***************************************************************************)
EXTENDS Integers, Sequences, FiniteSets, TLC

VARIABLES active_flows, heap, last, nops, gates, chain, gate_last,
          file, store_calls, candidates, pipe_last, threads, notified

vars == <<active_flows, heap, last, nops, gates, chain, gate_last,
          file, store_calls, candidates, pipe_last, threads, notified>>

flow_vars == <<active_flows, heap, last>>

gate_vars == <<gates, chain, gate_last>>

store_vars == <<file, store_calls>>

pipeline_vars == <<candidates, pipe_last>>

race_vars == <<threads, notified>>

other_vars == <<store_vars, pipeline_vars, race_vars>>

\* ------------------------------------------------------------------ bounds
\* FlowContext objects ever created (each start_flow allocates one).
MaxCtx == 2
\* Calls of the orchestrator's methods in one behaviour.
MaxOps == 4
\* Gates in one GateChain.
MaxChain == 3
\* Calls on the chains in one behaviour of GateSpec.
MaxGateOps == 2
\* Calls on the ManualReviewGate in one behaviour of ReviewSpec.
MaxReviewOps == 3
\* Calls on the Storage in one behaviour of StorageSpec.
MaxStoreOps == 3
\* Calls of start_flow and execute_flow before the two concurrent resume_flow
\* calls of RaceSpec.
MaxSetupOps == 2
\* Notes on one candidate of the RecruitmentPipeline.
MaxNotes == 1
\* The largest limit passed to get_top_candidates.
MaxLimit == 2

FlowIds == {"f1", "f2"}

\* ------------------------------------------------------- FlowStage, FlowStatus
INTAKE == "intake"
PARSE == "parse"
ENRICH == "enrich"
ANALYZE == "analyze"
SCORE == "score"
REVIEW == "review"
NOTIFY == "notify"
COMPLETE == "complete"

FlowStage == {INTAKE, PARSE, ENRICH, ANALYZE, SCORE, REVIEW, NOTIFY, COMPLETE}

PENDING == "pending"
IN_PROGRESS == "in_progress"
PAUSED == "paused"
SUCCESS == "success"
FAILED == "failed"

FlowStatus == {PENDING, IN_PROGRESS, PAUSED, SUCCESS, FAILED}

\* _review_candidate's REVIEW_THRESHOLD = 0.7, in hundredths.
REVIEW_THRESHOLD == 70

\* ------------------------------------------------------------ Python values
\* Optional[Dict] fields hold "None" or a tag naming the dict.
None == "None"

\* A score as the scorer returned it: a float (val, in hundredths), None, or a
\* value that is no number (a str).
NoScore == [kind |-> "None", val |-> 0]
FloatScore(v) == [kind |-> "float", val |-> v]
StrScore == [kind |-> "str", val |-> 0]

\* What parse_pdf hands back.  A dict carries contact_info.email and
\* contact_info.linkedin, each a string or None (PDFParser._extract_contact_info).
NoResume == [kind |-> "None", email |-> FALSE, linkedin |-> FALSE]
ResumeDict(e, l) == [kind |-> "dict", email |-> e, linkedin |-> l]

\* ---------------------------------------------- what the collaborators may do
ParserOutcomes ==
    {ResumeDict(TRUE, TRUE), ResumeDict(FALSE, FALSE),
     [kind |-> "error_dict", email |-> FALSE, linkedin |-> FALSE],
     [kind |-> "None", email |-> FALSE, linkedin |-> FALSE],
     [kind |-> "raise", email |-> FALSE, linkedin |-> FALSE]}

EnricherOutcomes == {"profile", "raise"}

AnalyzerOutcomes == {"dict", "None", "raise"}

ScoreValues == {0, 40, 70, 85}

ScorerOutcomes ==
    {FloatScore(v) : v \in ScoreValues} \cup {NoScore, StrScore, [kind |-> "raise", val |-> 0]}

NotifierOutcomes == {"ok", "raise"}

\* One outcome per collaborator for one call of execute_flow.  A collaborator the
\* call cannot reach (the stages before it fail, pause or skip it) has no
\* outcome to choose: it is pinned to one value.
Reaches(in, who) ==
    CASE who = "enricher" -> in.parser.kind = "dict" /\ in.parser.linkedin
      [] who = "analyzer" -> in.parser.kind = "dict"
      [] who = "scorer" -> in.parser.kind = "dict" /\ in.analyzer # "raise"
      [] who = "notifier" ->
             /\ in.parser.kind = "dict"
             /\ in.analyzer = "dict"
             /\ in.scorer.kind = "float"
             /\ in.scorer.val >= REVIEW_THRESHOLD

Inputs ==
    {in \in [parser : ParserOutcomes, enricher : EnricherOutcomes,
             analyzer : AnalyzerOutcomes, scorer : ScorerOutcomes,
             notifier : NotifierOutcomes] :
        /\ Reaches(in, "enricher") \/ in.enricher = "profile"
        /\ Reaches(in, "analyzer") \/ in.analyzer = "dict"
        /\ Reaches(in, "scorer") \/ in.scorer = NoScore
        /\ Reaches(in, "notifier") \/ in.notifier = "ok"}

\* ------------------------------------------------------------- FlowContext
FlowContext(flow_id, job_id, resume_path, status) ==
    [flow_id |-> flow_id,
     candidate_id |-> None,
     job_id |-> job_id,
     resume_path |-> resume_path,
     parsed_resume |-> NoResume,
     enriched_data |-> None,
     analysis |-> None,
     score |-> NoScore,
     stage |-> INTAKE,
     status |-> status,
     errors |-> <<>>]

\* A call in progress: the context it mutates, the collaborator calls made so
\* far (calls), what each collaborator did when called (seen), the exception
\* propagating out of the current statement, if any (exc), and the call's
\* assignments to context.stage and context.status and its collaborator calls in
\* the order the statements ran (log).
NotCalled == "-"

NoneSeen ==
    [parser |-> NotCalled, enricher |-> NotCalled, analyzer |-> NotCalled,
     scorer |-> NotCalled, notifier |-> NotCalled]

Frame(context) ==
    [context |-> context, calls |-> <<>>, seen |-> NoneSeen, exc |-> "", log |-> <<>>]

Event(ev, val) == [ev |-> ev, val |-> val]

Invoke(fr, who, outcome) ==
    [fr EXCEPT !.calls = Append(@, who), !.seen[who] = outcome,
               !.log = Append(@, Event("call", who))]

\* context.stage = stage
SetStage(fr, stage) ==
    [fr EXCEPT !.context.stage = stage, !.log = Append(@, Event("stage", stage))]

\* context.status = status
SetStatus(fr, status) ==
    [fr EXCEPT !.context.status = status, !.log = Append(@, Event("status", status))]

\* context.status = FAILED; context.errors.append(msg)
Fail(fr, msg) ==
    [SetStatus(fr, FAILED) EXCEPT !.context.errors = Append(@, msg)]

\* ----------------------------------------------------------- stage handlers
_extract_candidate_id(parsed_resume) ==
    IF parsed_resume.email THEN "email_local_part" ELSE "candidate_timestamp"

\* Mutant: the '"error" in parsed' test is missing.
_parse_resume_no_error_check(fr, p) ==
    LET f1 == Invoke(SetStage(fr, PARSE), "parser", p.kind)
    IN  CASE p.kind = "raise" -> Fail(f1, "Parse error: parser raised")
          [] p.kind = "None" -> Fail(f1, "Parse error: argument of type 'NoneType' is not iterable")
          [] OTHER ->
               [f1 EXCEPT !.context.parsed_resume = [p EXCEPT !.kind = "dict"],
                          !.context.candidate_id = _extract_candidate_id(p)]

_parse_resume(fr, p) ==
    LET f1 == Invoke(SetStage(fr, PARSE), "parser", p.kind)
    IN  CASE p.kind = "raise" -> Fail(f1, "Parse error: parser raised")
          [] p.kind = "None" -> Fail(f1, "Parse error: argument of type 'NoneType' is not iterable")
          [] p.kind = "error_dict" -> Fail(f1, "Parse error: bad file")
          [] OTHER ->
               [f1 EXCEPT !.context.parsed_resume = p,
                          !.context.candidate_id = _extract_candidate_id(p)]

\* Mutant: an enricher exception fails the flow like the required stages do.
_enrich_data_fatal(fr, e) ==
    LET f1 == SetStage(fr, ENRICH)
    IN  IF f1.context.parsed_resume.kind = "dict" /\ f1.context.parsed_resume.linkedin
        THEN LET f2 == Invoke(f1, "enricher", e)
             IN  IF e = "raise"
                 THEN Fail(f2, "Enrichment error: enricher raised")
                 ELSE [f2 EXCEPT !.context.enriched_data = e]
        ELSE [f1 EXCEPT !.context.enriched_data = "{}"]

_enrich_data(fr, e) ==
    LET f1 == SetStage(fr, ENRICH)
    IN  IF f1.context.parsed_resume.kind # "dict"
        THEN [f1 EXCEPT !.context.enriched_data = "{}"]
        ELSE IF f1.context.parsed_resume.linkedin
             THEN LET f2 == Invoke(f1, "enricher", e)
                  IN  IF e = "raise"
                      THEN [f2 EXCEPT !.context.enriched_data = "{}"]
                      ELSE [f2 EXCEPT !.context.enriched_data = e]
             ELSE [f1 EXCEPT !.context.enriched_data = "{}"]

_analyze_resume(fr, a) ==
    LET f1 == Invoke(SetStage(fr, ANALYZE), "analyzer", a)
    IN  IF a = "raise"
        THEN Fail(f1, "Analysis error: analyzer raised")
        ELSE [f1 EXCEPT !.context.analysis = a]

_score_candidate(fr, s) ==
    LET f1 == Invoke(SetStage(fr, SCORE), "scorer", s.kind)
    IN  IF s.kind = "raise"
        THEN Fail(f1, "Scoring error: scorer raised")
        ELSE [f1 EXCEPT !.context.score = s]

\* Python's truth value of context.score.
Truthy(score) ==
    CASE score.kind = "None" -> FALSE
      [] score.kind = "float" -> score.val # 0
      [] OTHER -> TRUE

\* Mutant: the threshold test is strict (score > REVIEW_THRESHOLD).
_review_candidate_strict(fr) ==
    LET f1 == SetStage(fr, REVIEW)
        score == f1.context.score
    IN  IF ~Truthy(score)
        THEN SetStatus(f1, PAUSED)
        ELSE IF score.kind = "str"
             THEN [f1 EXCEPT !.exc = "'>=' not supported between instances of 'str' and 'float'"]
             ELSE IF score.val > REVIEW_THRESHOLD
                  THEN f1
                  ELSE SetStatus(f1, PAUSED)

_review_candidate(fr) ==
    LET f1 == SetStage(fr, REVIEW)
        score == f1.context.score
    IN  IF ~Truthy(score)
        THEN SetStatus(f1, PAUSED)
        ELSE IF score.kind = "str"
             THEN [f1 EXCEPT !.exc = "'>=' not supported between instances of 'str' and 'float'"]
             ELSE IF score.val >= REVIEW_THRESHOLD
                  THEN f1
                  ELSE SetStatus(f1, PAUSED)

_notify_stakeholders(fr, n) ==
    LET f1 == SetStage(fr, NOTIFY)
    IN  IF f1.context.analysis = None
        THEN f1
        ELSE Invoke(f1, "notifier", n)

\* -------------------------------------------------------------- execute_flow
\* Mutant: no status check after the ANALYZE stage.
execute_flow_no_check_after_analyze(context, in) ==
    LET f1 == _parse_resume(Frame(context), in.parser)
    IN  IF f1.context.status = FAILED THEN f1 ELSE
    LET f2 == _enrich_data(f1, in.enricher)
    IN  IF f2.context.status = FAILED THEN f2 ELSE
    LET f3 == _analyze_resume(f2, in.analyzer)
        f4 == _score_candidate(f3, in.scorer)
    IN  IF f4.context.status = FAILED THEN f4 ELSE
    LET f5 == _review_candidate(f4)
    IN  IF f5.exc # "" THEN [Fail(f5, f5.exc) EXCEPT !.exc = ""] ELSE
        IF f5.context.status = PAUSED THEN f5 ELSE
    LET f6 == _notify_stakeholders(f5, in.notifier)
    IN  SetStatus(SetStage(f6, COMPLETE), SUCCESS)

\* Mutant: no try/except around the stages; an exception of REVIEW propagates.
execute_flow_no_outer_except(context, in) ==
    LET f1 == _parse_resume(Frame(context), in.parser)
    IN  IF f1.context.status = FAILED THEN f1 ELSE
    LET f2 == _enrich_data(f1, in.enricher)
    IN  IF f2.context.status = FAILED THEN f2 ELSE
    LET f3 == _analyze_resume(f2, in.analyzer)
    IN  IF f3.context.status = FAILED THEN f3 ELSE
    LET f4 == _score_candidate(f3, in.scorer)
    IN  IF f4.context.status = FAILED THEN f4 ELSE
    LET f5 == _review_candidate(f4)
    IN  IF f5.exc # "" THEN f5 ELSE
        IF f5.context.status = PAUSED THEN f5 ELSE
    LET f6 == _notify_stakeholders(f5, in.notifier)
    IN  SetStatus(SetStage(f6, COMPLETE), SUCCESS)

execute_flow(context, in) ==
    LET f1 == _parse_resume(Frame(context), in.parser)
    IN  IF f1.context.status = FAILED THEN f1 ELSE
    LET f2 == _enrich_data(f1, in.enricher)
    IN  IF f2.context.status = FAILED THEN f2 ELSE
    LET f3 == _analyze_resume(f2, in.analyzer)
    IN  IF f3.context.status = FAILED THEN f3 ELSE
    LET f4 == _score_candidate(f3, in.scorer)
    IN  IF f4.context.status = FAILED THEN f4 ELSE
    LET f5 == _review_candidate(f4)
    IN  IF f5.exc # "" THEN [Fail(f5, f5.exc) EXCEPT !.exc = ""] ELSE
        IF f5.context.status = PAUSED THEN f5 ELSE
    LET f6 == _notify_stakeholders(f5, in.notifier)
    IN  SetStatus(SetStage(f6, COMPLETE), SUCCESS)

\* -------------------------------------------------------------- resume_flow
\* The frame resume_flow ends with; exc is the ValueError it raises, if any.
\* ref is active_flows.get(flow_id): 0 for None, else the context's place in heap.
\* Mutant: the 'status != PAUSED' test is missing.
resume_flow_unguarded(ref, context, approved, n) ==
    IF ref = 0
    THEN [Frame(context) EXCEPT !.exc = "not found"]
    ELSE IF ~approved
    THEN Fail(Frame(context), "Rejected during manual review")
    ELSE LET f1 == _notify_stakeholders(SetStatus(Frame(context), IN_PROGRESS), n)
         IN  SetStatus(SetStage(f1, COMPLETE), SUCCESS)

\* Mutant: the rejection branch does not return and runs on into NOTIFY.
resume_flow_reject_runs_on(ref, context, approved, n) ==
    IF ref = 0
    THEN [Frame(context) EXCEPT !.exc = "not found"]
    ELSE IF context.status # PAUSED
    THEN [Frame(context) EXCEPT !.exc = "is not paused"]
    ELSE LET f0 == IF approved THEN Frame(context)
                   ELSE Fail(Frame(context), "Rejected during manual review")
             f1 == _notify_stakeholders(SetStatus(f0, IN_PROGRESS), n)
         IN  SetStatus(SetStage(f1, COMPLETE), SUCCESS)

resume_flow(ref, context, approved, n) ==
    IF ref = 0
    THEN [Frame(context) EXCEPT !.exc = "not found"]
    ELSE IF context.status # PAUSED
    THEN [Frame(context) EXCEPT !.exc = "is not paused"]
    ELSE IF ~approved
    THEN Fail(Frame(context), "Rejected during manual review")
    ELSE LET f1 == _notify_stakeholders(SetStatus(Frame(context), IN_PROGRESS), n)
         IN  SetStatus(SetStage(f1, COMPLETE), SUCCESS)

\* =========================================================== approval gates
\* GateStatus (PENDING has FlowStatus.PENDING's value, "pending")
GATE_PENDING == "pending"
APPROVED == "approved"
REJECTED == "rejected"
ESCALATED == "escalated"

GateStatus == {GATE_PENDING, APPROVED, REJECTED, ESCALATED}

\* GateResult, without evaluated_at and metadata.
GateResult(gate_id, status, reason, evaluated_by) ==
    [gate_id |-> gate_id, status |-> status, reason |-> reason,
     evaluated_by |-> evaluated_by]

NoResult == GateResult("", "", "", None)

\* The gates create_default_gates builds.
GateIds == {"score_threshold", "hiring_manager_review", "experience_check"}

\* score_gate's threshold=0.7, in hundredths.
DEFAULT_THRESHOLD == 70

\* experience_gate's condition: years_experience >= 3.
MIN_YEARS == 3

\* A gate object.  threshold is ScoreThresholdGate's, reviewers and
\* pending_reviews (its keys) are ManualReviewGate's; the other classes have
\* them empty.
ApprovalGate(gate_id, class, threshold, reviewers) ==
    [gate_id |-> gate_id, class |-> class, threshold |-> threshold,
     reviewers |-> reviewers, pending_reviews |-> {}, history |-> <<>>]

\* The context dict handed to evaluate: its flow_id (None: no such key), its
\* score and its years_experience (a number, no such key, or no number).
NoYears == [kind |-> "absent", val |-> 0]
IntYears(v) == [kind |-> "int", val |-> v]
StrYears == [kind |-> "str", val |-> 0]

GateContexts ==
    [flow_id : FlowIds \cup {None},
     score : {NoScore, FloatScore(40), FloatScore(70), StrScore},
     years_experience : {NoYears, IntYears(5), StrYears}]

\* What evaluate leaves: the gate as mutated, the GateResult returned, or the
\* exception raised.
Evaluation(gate, result, exc) == [gate |-> gate, result |-> result, exc |-> exc]

Returned(gate, result) ==
    Evaluation([gate EXCEPT !.history = Append(@, result)], result, "")

\* Mutant: the threshold test is strict (score > self.threshold).
ScoreThresholdGate_evaluate_strict(gate, context) ==
    LET score == context.score
    IN  IF score.kind = "None"
        THEN Returned(gate, GateResult(gate.gate_id, REJECTED, "Score not available", "system"))
        ELSE IF score.kind = "str"
        THEN Evaluation(gate, NoResult, "TypeError")
        ELSE IF score.val > gate.threshold
        THEN Returned(gate, GateResult(gate.gate_id, APPROVED, "Score meets threshold", "system"))
        ELSE Returned(gate, GateResult(gate.gate_id, REJECTED, "Score below threshold", "system"))

ScoreThresholdGate_evaluate(gate, context) ==
    LET score == context.score
    IN  IF score.kind = "None"
        THEN Returned(gate, GateResult(gate.gate_id, REJECTED, "Score not available", "system"))
        ELSE IF score.kind = "str"
        THEN Evaluation(gate, NoResult, "TypeError")
        ELSE IF score.val >= gate.threshold
        THEN Returned(gate, GateResult(gate.gate_id, APPROVED, "Score meets threshold", "system"))
        ELSE Returned(gate, GateResult(gate.gate_id, REJECTED, "Score below threshold", "system"))

\* context.get("flow_id", "unknown")
PendingKey(context) == IF context.flow_id = None THEN "unknown" ELSE context.flow_id

ManualReviewGate_evaluate(gate, context) ==
    Returned([gate EXCEPT !.pending_reviews = @ \cup {PendingKey(context)}],
             GateResult(gate.gate_id, GATE_PENDING, "Awaiting manual review", None))

\* experience_gate's lambda ctx: ctx.get("years_experience", 0) >= 3
condition_func(context) ==
    LET years == context.years_experience
    IN  CASE years.kind = "absent" -> IF 0 >= MIN_YEARS THEN "True" ELSE "False"
          [] years.kind = "int" -> IF years.val >= MIN_YEARS THEN "True" ELSE "False"
          [] OTHER -> "raise"

\* Mutant: no try/except around the predicate; its exception propagates.
ConditionalGate_evaluate_uncaught(gate, context) ==
    LET passed == condition_func(context)
    IN  CASE passed = "True" ->
                 Returned(gate, GateResult(gate.gate_id, APPROVED, "Condition passed", "system"))
          [] passed = "False" ->
                 Returned(gate, GateResult(gate.gate_id, REJECTED, "Condition failed", "system"))
          [] OTHER -> Evaluation(gate, NoResult, "TypeError")

ConditionalGate_evaluate(gate, context) ==
    LET passed == condition_func(context)
    IN  CASE passed = "True" ->
                 Returned(gate, GateResult(gate.gate_id, APPROVED, "Condition passed", "system"))
          [] passed = "False" ->
                 Returned(gate, GateResult(gate.gate_id, REJECTED, "Condition failed", "system"))
          [] OTHER ->
                 Returned(gate, GateResult(gate.gate_id, REJECTED,
                                           "Condition evaluation error", "system"))

\* gate.evaluate(context), by the gate's class
evaluate(gate, context) ==
    CASE gate.class = "ScoreThresholdGate" -> ScoreThresholdGate_evaluate(gate, context)
      [] gate.class = "ManualReviewGate" -> ManualReviewGate_evaluate(gate, context)
      [] OTHER -> ConditionalGate_evaluate(gate, context)

\* Mutant: the reviewer is not checked against self.reviewers.
submit_review_any_reviewer(gate, flow_id, reviewer, approved) ==
    IF flow_id \notin gate.pending_reviews
    THEN Evaluation(gate, NoResult, "No pending review")
    ELSE LET status == IF approved THEN APPROVED ELSE REJECTED
             reason == IF approved THEN "Approved by reviewer" ELSE "Rejected by reviewer"
         IN  Returned([gate EXCEPT !.pending_reviews = @ \ {flow_id}],
                      GateResult(gate.gate_id, status, reason, reviewer))

\* Mutant: the pending entry is not deleted.
submit_review_keeps_pending(gate, flow_id, reviewer, approved) ==
    IF reviewer \notin gate.reviewers
    THEN Evaluation(gate, NoResult, "not authorized")
    ELSE IF flow_id \notin gate.pending_reviews
    THEN Evaluation(gate, NoResult, "No pending review")
    ELSE LET status == IF approved THEN APPROVED ELSE REJECTED
             reason == IF approved THEN "Approved by reviewer" ELSE "Rejected by reviewer"
         IN  Returned(gate, GateResult(gate.gate_id, status, reason, reviewer))

\* ManualReviewGate.submit_review(flow_id, reviewer, approved)
submit_review(gate, flow_id, reviewer, approved) ==
    IF reviewer \notin gate.reviewers
    THEN Evaluation(gate, NoResult, "not authorized")
    ELSE IF flow_id \notin gate.pending_reviews
    THEN Evaluation(gate, NoResult, "No pending review")
    ELSE LET status == IF approved THEN APPROVED ELSE REJECTED
             reason == IF approved THEN "Approved by reviewer" ELSE "Rejected by reviewer"
         IN  Returned([gate EXCEPT !.pending_reviews = @ \ {flow_id}],
                      GateResult(gate.gate_id, status, reason, reviewer))

\* GateChain(chain_id, gates, require_all); gates holds gate ids.
GateChain(chain_id, gate_list, require_all) ==
    [chain_id |-> chain_id, gates |-> gate_list, require_all |-> require_all]

\* Mutant: the loop has no break for require_all.
RECURSIVE GateChain_loop_no_and_break(_, _, _, _)
GateChain_loop_no_and_break(ch, context, i, st) ==
    IF i > Len(ch.gates)
    THEN st
    ELSE LET ev == evaluate(st.gates[ch.gates[i]], context)
             st1 == [st EXCEPT !.gates[ch.gates[i]] = ev.gate,
                               !.results = Append(@, ev.result)]
         IN  IF ev.exc # ""
             THEN [st EXCEPT !.exc = ev.exc]
             ELSE IF ~ch.require_all /\ ev.result.status = APPROVED
             THEN st1
             ELSE GateChain_loop_no_and_break(ch, context, i + 1, st1)

\* Mutant: the loop has no break for the OR logic.
RECURSIVE GateChain_loop_no_or_break(_, _, _, _)
GateChain_loop_no_or_break(ch, context, i, st) ==
    IF i > Len(ch.gates)
    THEN st
    ELSE LET ev == evaluate(st.gates[ch.gates[i]], context)
             st1 == [st EXCEPT !.gates[ch.gates[i]] = ev.gate,
                               !.results = Append(@, ev.result)]
         IN  IF ev.exc # ""
             THEN [st EXCEPT !.exc = ev.exc]
             ELSE IF ch.require_all /\ ev.result.status # APPROVED
             THEN st1
             ELSE GateChain_loop_no_or_break(ch, context, i + 1, st1)

\* The for loop of GateChain.evaluate from the i-th gate on; st carries the gate
\* objects, the results list and the exception that ended the loop, if any.
RECURSIVE GateChain_loop(_, _, _, _)
GateChain_loop(ch, context, i, st) ==
    IF i > Len(ch.gates)
    THEN st
    ELSE LET ev == evaluate(st.gates[ch.gates[i]], context)
             st1 == [st EXCEPT !.gates[ch.gates[i]] = ev.gate,
                               !.results = Append(@, ev.result)]
         IN  IF ev.exc # ""
             THEN [st EXCEPT !.exc = ev.exc]
             ELSE IF ch.require_all /\ ev.result.status # APPROVED
             THEN st1
             ELSE IF ~ch.require_all /\ ev.result.status = APPROVED
             THEN st1
             ELSE GateChain_loop(ch, context, i + 1, st1)

NoChainResult ==
    [chain_id |-> "", approved |-> FALSE, pending |-> FALSE, gate_results |-> <<>>,
     logic |-> ""]

\* Mutant: pending is set by any ManualReviewGate of the list, evaluated or not.
GateChain_evaluate_pending_any_manual(ch, gate_objects, context) ==
    LET st == GateChain_loop(ch, context, 1,
                             [gates |-> gate_objects, results |-> <<>>, exc |-> ""])
        results == st.results
        overall_approved ==
            IF ch.require_all
            THEN \A i \in 1..Len(results) : results[i].status = APPROVED
            ELSE \E i \in 1..Len(results) : results[i].status = APPROVED
        has_pending ==
            \E i \in 1..Len(ch.gates) : gate_objects[ch.gates[i]].class = "ManualReviewGate"
    IN  [gates |-> st.gates,
         exc |-> st.exc,
         result |-> IF st.exc # ""
                    THEN NoChainResult
                    ELSE [chain_id |-> ch.chain_id,
                          approved |-> overall_approved,
                          pending |-> has_pending,
                          gate_results |-> results,
                          logic |-> IF ch.require_all THEN "AND" ELSE "OR"]]

\* GateChain.evaluate(context): the gate objects after it, and the dict returned
\* or the exception raised.
GateChain_evaluate(ch, gate_objects, context) ==
    LET st == GateChain_loop(ch, context, 1,
                             [gates |-> gate_objects, results |-> <<>>, exc |-> ""])
        results == st.results
        overall_approved ==
            IF ch.require_all
            THEN \A i \in 1..Len(results) : results[i].status = APPROVED
            ELSE \E i \in 1..Len(results) : results[i].status = APPROVED
        has_pending == \E i \in 1..Len(results) : results[i].status = GATE_PENDING
    IN  [gates |-> st.gates,
         exc |-> st.exc,
         result |-> IF st.exc # ""
                    THEN NoChainResult
                    ELSE [chain_id |-> ch.chain_id,
                          approved |-> overall_approved,
                          pending |-> has_pending,
                          gate_results |-> results,
                          logic |-> IF ch.require_all THEN "AND" ELSE "OR"]]

\* create_default_gates: the three gates and the chain "standard_approval".
create_default_gates ==
    [gates |-> [g \in GateIds |->
                   CASE g = "score_threshold" ->
                            ApprovalGate(g, "ScoreThresholdGate", DEFAULT_THRESHOLD, {})
                     [] g = "hiring_manager_review" ->
                            ApprovalGate(g, "ManualReviewGate", 0, {"hiring_manager", "team_lead"})
                     [] OTHER -> ApprovalGate(g, "ConditionalGate", 0, {})],
     chain |-> GateChain("standard_approval", <<"score_threshold", "experience_check">>, TRUE)]

\* ---------------------------------------------------------------- Storage
\* (src/agents/pipeline_manager.py)  The JSONL file is the sequence of its
\* lines.  A record is a CandidateRecord as asdict gives it, cut down to the id
\* and the stage: both are strings, which json.dumps / json.loads return
\* unchanged, and a line of a record is never blank.
RecordIds == {"a", "b"}

RecordStages == {"new", "analyzed", "enriched"}

Records == [id : RecordIds, stage : RecordStages]

\* json.dumps(record) + '\n'
dumps(record) == [json |-> record]

\* json.loads(line)
loads(line) == line.json

\* Storage.append(record)
Storage_append(f, record) == Append(f, dumps(record))

\* Storage.load_all()
load_all(f) == [i \in 1..Len(f) |-> loads(f[i])]

\* Mutant: only the first matching record is replaced.
Storage_upsert_first_match(f, value, new_record) ==
    LET records == load_all(f)
        matching == {i \in 1..Len(records) : records[i].id = value}
        rewritten == [i \in 1..Len(records) |->
                        IF i \in matching /\ \A j \in matching : i <= j
                        THEN dumps(new_record)
                        ELSE dumps(records[i])]
    IN  IF matching = {} THEN Storage_append(rewritten, new_record) ELSE rewritten

\* Storage.upsert('id', value, new_record)
Storage_upsert(f, value, new_record) ==
    LET records == load_all(f)
        updated == \E i \in 1..Len(records) : records[i].id = value
        rewritten == [i \in 1..Len(records) |->
                        IF records[i].id = value
                        THEN dumps(new_record)
                        ELSE dumps(records[i])]
    IN  IF ~updated THEN Storage_append(rewritten, new_record) ELSE rewritten

\* ---------------------------------------------------- RecruitmentPipeline
\* (src/workflows/pipeline.py)  self.candidates is a dict: here the sequence
\* of its values in insertion order, one per candidate_id.  A CandidateStatus
\* is cut down to candidate_id, current_stage, score and notes (a note without
\* its timestamp); candidate_name, email, the dates and metadata are only
\* stored.
SOURCING == "sourcing"

SCREENING == "screening"

PipelineStages == {SOURCING, SCREENING}

CandidateIds == {"candidate_1", "candidate_2"}

PipelineScores == {FloatScore(0), FloatScore(70), FloatScore(85)}

CandidateStatus(candidate_id, current_stage, score) ==
    [candidate_id |-> candidate_id, current_stage |-> current_stage,
     score |-> score, notes |-> <<>>]

\* candidate_id in self.candidates
HasCandidate(table, candidate_id) ==
    \E i \in 1..Len(table) : table[i].candidate_id = candidate_id

\* the index of self.candidates[candidate_id]
IndexOf(table, candidate_id) ==
    CHOOSE i \in 1..Len(table) : table[i].candidate_id = candidate_id

\* What a method of the pipeline leaves: the table, the value it returned and
\* the message of the ValueError it raised ("" when it returned).
Outcome(table, result, exc) == [candidates |-> table, result |-> result, exc |-> exc]

\* Mutant: no check for an existing candidate_id; the entry is overwritten.
add_candidate_overwrites(table, candidate_id, initial_stage, score) ==
    LET status == CandidateStatus(candidate_id, initial_stage, score)
    IN  IF HasCandidate(table, candidate_id)
        THEN Outcome([table EXCEPT ![IndexOf(table, candidate_id)] = status],
                     <<status>>, "")
        ELSE Outcome(Append(table, status), <<status>>, "")

\* RecruitmentPipeline.add_candidate
add_candidate(table, candidate_id, initial_stage, score) ==
    IF HasCandidate(table, candidate_id)
    THEN Outcome(table, <<>>, "already exists in pipeline")
    ELSE LET status == CandidateStatus(candidate_id, initial_stage, score)
         IN  Outcome(Append(table, status), <<status>>, "")

\* RecruitmentPipeline.move_candidate; note is "" for None
move_candidate(table, candidate_id, new_stage, note) ==
    IF ~HasCandidate(table, candidate_id)
    THEN Outcome(table, <<>>, "not found in pipeline")
    ELSE LET i == IndexOf(table, candidate_id)
             moved == [table[i] EXCEPT !.current_stage = new_stage]
             candidate == IF note # ""
                          THEN [moved EXCEPT !.notes = Append(@, note)]
                          ELSE moved
         IN  Outcome([table EXCEPT ![i] = candidate], <<candidate>>, "")

\* RecruitmentPipeline.update_score
update_score(table, candidate_id, score) ==
    IF ~HasCandidate(table, candidate_id)
    THEN Outcome(table, <<>>, "not found in pipeline")
    ELSE LET i == IndexOf(table, candidate_id)
             candidate == [table[i] EXCEPT !.score = score]
         IN  Outcome([table EXCEPT ![i] = candidate], <<candidate>>, "")

\* RecruitmentPipeline.add_note
add_note(table, candidate_id, note) ==
    IF ~HasCandidate(table, candidate_id)
    THEN Outcome(table, <<>>, "not found in pipeline")
    ELSE LET i == IndexOf(table, candidate_id)
             candidate == [table[i] EXCEPT !.notes = Append(@, note)]
         IN  Outcome([table EXCEPT ![i] = candidate], <<candidate>>, "")

\* [c for c in seq if keep(c)], keep given as the set of indices kept
RECURSIVE Filter(_, _, _)
Filter(seq, kept, i) ==
    IF i > Len(seq) THEN <<>>
    ELSE IF i \in kept THEN <<seq[i]>> \o Filter(seq, kept, i + 1)
    ELSE Filter(seq, kept, i + 1)

\* sorted(seq, key=lambda x: x.score, reverse=True): a stable sort, so
\* candidates of equal score keep their order
RECURSIVE InsertByScore(_, _)
InsertByScore(sorted, c) ==
    IF sorted = <<>> THEN <<c>>
    ELSE IF Head(sorted).score.val >= c.score.val
    THEN <<Head(sorted)>> \o InsertByScore(Tail(sorted), c)
    ELSE <<c>> \o sorted

RECURSIVE SortedByScore(_, _)
SortedByScore(seq, n) ==
    IF n = 0 THEN <<>> ELSE InsertByScore(SortedByScore(seq, n - 1), seq[n])

\* seq[:limit], the slice of Python: a negative limit counts from the end
Slice(seq, limit) ==
    LET stop == IF limit >= 0
                THEN (IF limit < Len(seq) THEN limit ELSE Len(seq))
                ELSE (IF Len(seq) + limit > 0 THEN Len(seq) + limit ELSE 0)
    IN  SubSeq(seq, 1, stop)

\* Mutant: the candidates are not sorted.
get_top_candidates_unsorted(table, limit, stage) ==
    LET in_stage == IF stage # None
                    THEN Filter(table, {i \in 1..Len(table) : table[i].current_stage = stage}, 1)
                    ELSE table
        scored_candidates ==
            Filter(in_stage, {i \in 1..Len(in_stage) : in_stage[i].score # NoScore}, 1)
    IN  Slice(scored_candidates, limit)

\* RecruitmentPipeline.get_top_candidates; stage is None for no filter, limit
\* is a number of candidates (0 or more)
get_top_candidates(table, limit, stage) ==
    LET in_stage == IF stage # None
                    THEN Filter(table, {i \in 1..Len(table) : table[i].current_stage = stage}, 1)
                    ELSE table
        scored_candidates ==
            Filter(in_stage, {i \in 1..Len(in_stage) : in_stage[i].score # NoScore}, 1)
        sorted_candidates == SortedByScore(scored_candidates, Len(scored_candidates))
    IN  Slice(sorted_candidates, limit)

\* ------------------------------------------------------------------- state
\* The collaborators' outcomes of a call that chose none.
NoInputs ==
    [parser |-> NoResume, enricher |-> "profile", analyzer |-> "dict",
     scorer |-> NoScore, notifier |-> "ok"]

\* The outcomes to choose for execute_flow(context).  execute_flow resets no
\* status: on a FAILED context it returns after PARSE, on a PAUSED one it
\* returns after REVIEW, so the collaborators behind those points are never
\* invoked and are pinned too.
InputsFor(context, in) ==
    /\ context.status = FAILED => in = [NoInputs EXCEPT !.parser = in.parser]
    /\ context.status = PAUSED => in.notifier = "ok"

\* The last call: its arguments, the context it worked on (ctx, 0 for none) and
\* that context's status and stage before it, what the collaborators were set
\* to do (in), which of them it invoked, in order (calls), what those did
\* (seen), its stage and status assignments and collaborator calls in order
\* (log), and the exception it raised, if any.
NoCall ==
    [op |-> "init", flow_id |-> "", ctx |-> 0, approved |-> FALSE, raised |-> "",
     msg |-> "", calls |-> <<>>, seen |-> NoneSeen, in |-> NoInputs,
     pre_status |-> "", pre_stage |-> "", log |-> <<>>]

\* The last call on a gate or a chain: the gate objects before it (pre), its
\* arguments, and the result it returned or the exception it raised (raised,
\* and for a ValueError its message, msg).
NoGateCall ==
    [op |-> "init", pre |-> create_default_gates.gates,
     context |-> [flow_id |-> None, score |-> NoScore, years_experience |-> NoYears],
     gate_id |-> "", flow_id |-> "", reviewer |-> "", approved |-> FALSE,
     result |-> NoChainResult, review |-> NoResult, raised |-> "", msg |-> ""]

\* The last call on the pipeline: the table before it (pre), its arguments,
\* the list it returned and the message of the ValueError it raised.
NoPipelineCall ==
    [op |-> "init", candidate_id |-> "", stage |-> None, score |-> NoScore,
     note |-> "", limit |-> 0, pre |-> <<>>, result |-> <<>>, msg |-> ""]

PipelineCall(op, candidate_id, stage, score, note, out) ==
    [NoPipelineCall EXCEPT !.op = op, !.candidate_id = candidate_id,
                           !.stage = stage, !.score = score, !.note = note,
                           !.pre = candidates, !.result = out.result,
                           !.msg = out.exc]

\* The threads that call resume_flow at the same time, and a thread's position
\* in resume_flow: pc is "idle" before the call, the line of the statement it
\* runs next during it, "returned" or "raised" after it; flow_id and approved
\* are its arguments, context its local variable (0 before line 281), passed
\* whether it got past the check of line 285, msg the ValueError it raised.
Threads == {"t1", "t2"}

IdleThread ==
    [pc |-> "idle", flow_id |-> "", approved |-> FALSE, context |-> 0,
     passed |-> FALSE, msg |-> ""]

Init ==
    /\ active_flows = [f \in FlowIds |-> 0]
    /\ heap = <<>>
    /\ last = NoCall
    /\ nops = 0
    /\ gates = create_default_gates.gates
    /\ chain = create_default_gates.chain
    /\ gate_last = NoGateCall
    /\ file = <<>>
    /\ store_calls = <<>>
    /\ candidates = <<>>
    /\ pipe_last = NoPipelineCall
    /\ threads = [t \in Threads |-> IdleThread]
    /\ notified = 0

\* start_flow(flow_id, resume_path, job_id)
StartFlow(flow_id) ==
    /\ nops < MaxOps
    /\ Len(heap) < MaxCtx
    /\ heap' = Append(heap, FlowContext(flow_id, "job-123", "resume.pdf", IN_PROGRESS))
    /\ active_flows' = [active_flows EXCEPT ![flow_id] = Len(heap) + 1]
    /\ last' = [NoCall EXCEPT !.op = "start_flow", !.flow_id = flow_id,
                              !.ctx = Len(heap) + 1]
    /\ nops' = nops + 1
    /\ UNCHANGED gate_vars
    /\ UNCHANGED other_vars

\* execute_flow(context), on any context the caller holds
ExecuteFlow(c, in) ==
    /\ nops < MaxOps
    /\ c \in 1..Len(heap)
    /\ InputsFor(heap[c], in)
    /\ \E fr \in {execute_flow(heap[c], in)} :
           /\ heap' = [heap EXCEPT ![c] = fr.context]
           /\ last' = [NoCall EXCEPT !.op = "execute_flow", !.flow_id = heap[c].flow_id,
                                     !.ctx = c, !.calls = fr.calls, !.seen = fr.seen,
                                     !.log = fr.log, !.in = in,
                                     !.raised = IF fr.exc # "" THEN "TypeError" ELSE "",
                                     !.msg = fr.exc,
                                     !.pre_status = heap[c].status,
                                     !.pre_stage = heap[c].stage]
    /\ nops' = nops + 1
    /\ UNCHANGED active_flows
    /\ UNCHANGED gate_vars
    /\ UNCHANGED other_vars

\* resume_flow(flow_id, approved)
ResumeFlow(flow_id, approved, n) ==
    /\ nops < MaxOps
    /\ \E ref \in {active_flows[flow_id]} :
       \E context \in {IF ref = 0 THEN FlowContext(flow_id, None, None, PENDING) ELSE heap[ref]} :
       \E fr \in {resume_flow(ref, context, approved, n)} :
           /\ heap' = IF ref = 0 THEN heap ELSE [heap EXCEPT ![ref] = fr.context]
           /\ last' = [NoCall EXCEPT !.op = "resume_flow", !.flow_id = flow_id,
                                     !.ctx = ref, !.approved = approved,
                                     !.raised = IF fr.exc # "" THEN "ValueError" ELSE "",
                                     !.msg = fr.exc,
                                     !.calls = fr.calls, !.seen = fr.seen,
                                     !.log = fr.log,
                                     !.pre_status = IF ref = 0 THEN "" ELSE heap[ref].status,
                                     !.pre_stage = IF ref = 0 THEN "" ELSE heap[ref].stage]
    /\ nops' = nops + 1
    /\ UNCHANGED active_flows
    /\ UNCHANGED gate_vars
    /\ UNCHANGED other_vars

\* get_flow_status(flow_id)
GetFlowStatus(flow_id) ==
    /\ nops < MaxOps
    /\ last' = [NoCall EXCEPT !.op = "get_flow_status", !.flow_id = flow_id,
                              !.ctx = active_flows[flow_id]]
    /\ nops' = nops + 1
    /\ UNCHANGED <<active_flows, heap>>
    /\ UNCHANGED gate_vars
    /\ UNCHANGED other_vars

Next ==
    \/ \E flow_id \in FlowIds : StartFlow(flow_id)
    \/ \E c \in 1..MaxCtx, in \in Inputs : ExecuteFlow(c, in)
    \/ \E flow_id \in FlowIds, approved \in BOOLEAN, n \in NotifierOutcomes :
           ResumeFlow(flow_id, approved, n)
    \/ \E flow_id \in FlowIds : GetFlowStatus(flow_id)

Spec == Init /\ [][Next]_vars

\* ------------------------------------------------- the gates' specification
GateLists == UNION {[1..n -> GateIds] : n \in 0..MaxChain}

Reviewers == {"hiring_manager", "team_lead", "stranger"}

\* GateChain(chain_id, gates, require_all)
NewChain(gate_list, require_all) ==
    /\ nops < MaxGateOps
    /\ chain' = GateChain("chain", gate_list, require_all)
    /\ gate_last' = [NoGateCall EXCEPT !.op = "GateChain", !.pre = gates]
    /\ nops' = nops + 1
    /\ UNCHANGED gates
    /\ UNCHANGED flow_vars
    /\ UNCHANGED other_vars

\* chain.evaluate(context)
EvaluateChain(context) ==
    /\ nops < MaxGateOps
    /\ \E r \in {GateChain_evaluate(chain, gates, context)} :
           /\ gates' = r.gates
           /\ gate_last' = [NoGateCall EXCEPT !.op = "evaluate", !.pre = gates,
                                              !.context = context,
                                              !.result = r.result,
                                              !.raised = r.exc]
    /\ nops' = nops + 1
    /\ UNCHANGED chain
    /\ UNCHANGED flow_vars
    /\ UNCHANGED other_vars

GateNext ==
    \/ \E gate_list \in GateLists, require_all \in BOOLEAN : NewChain(gate_list, require_all)
    \/ \E context \in GateContexts : EvaluateChain(context)

GateSpec == Init /\ [][GateNext]_vars

\* --------------------------------------- the ManualReviewGate's specification
\* gate.evaluate(context), called on the gate itself
EvaluateGate(gate_id, context) ==
    /\ nops < MaxReviewOps
    /\ \E r \in {evaluate(gates[gate_id], context)} :
           /\ gates' = [gates EXCEPT ![gate_id] = r.gate]
           /\ gate_last' = [NoGateCall EXCEPT !.op = "gate.evaluate", !.pre = gates,
                                              !.gate_id = gate_id,
                                              !.context = context,
                                              !.review = r.result,
                                              !.raised = r.exc]
    /\ nops' = nops + 1
    /\ UNCHANGED chain
    /\ UNCHANGED flow_vars
    /\ UNCHANGED other_vars

\* gate.submit_review(flow_id, reviewer, approved) on the ManualReviewGate
SubmitReview(gate_id, flow_id, reviewer, approved) ==
    /\ nops < MaxReviewOps
    /\ gates[gate_id].class = "ManualReviewGate"
    /\ \E r \in {submit_review(gates[gate_id], flow_id, reviewer, approved)} :
           /\ gates' = [gates EXCEPT ![gate_id] = r.gate]
           /\ gate_last' = [NoGateCall EXCEPT !.op = "submit_review", !.pre = gates,
                                              !.gate_id = gate_id,
                                              !.flow_id = flow_id,
                                              !.reviewer = reviewer,
                                              !.approved = approved,
                                              !.review = r.result,
                                              !.raised = IF r.exc # "" THEN "ValueError" ELSE "",
                                              !.msg = r.exc]
    /\ nops' = nops + 1
    /\ UNCHANGED chain
    /\ UNCHANGED flow_vars
    /\ UNCHANGED other_vars

ReviewNext ==
    \/ \E flow_id \in FlowIds \cup {None} :
           EvaluateGate("hiring_manager_review",
                        [flow_id |-> flow_id, score |-> NoScore, years_experience |-> NoYears])
    \/ \E flow_id \in FlowIds \cup {"unknown"}, reviewer \in Reviewers, approved \in BOOLEAN :
           SubmitReview("hiring_manager_review", flow_id, reviewer, approved)

ReviewSpec == Init /\ [][ReviewNext]_vars

\* ------------------------------------------------ the Storage's specification
\* A call on the Storage: its arguments and the file before it.
StoreCall(op, value, record, pre) ==
    [op |-> op, value |-> value, record |-> record, pre |-> pre]

\* storage.append(record)
StorageAppend(record) ==
    /\ Len(store_calls) < MaxStoreOps
    /\ file' = Storage_append(file, record)
    /\ store_calls' = Append(store_calls, StoreCall("append", record.id, record, file))
    /\ UNCHANGED <<flow_vars, gate_vars, pipeline_vars, race_vars, nops>>

\* storage.upsert('id', value, new_record)
StorageUpsert(value, new_record) ==
    /\ Len(store_calls) < MaxStoreOps
    /\ file' = Storage_upsert(file, value, new_record)
    /\ store_calls' = Append(store_calls, StoreCall("upsert", value, new_record, file))
    /\ UNCHANGED <<flow_vars, gate_vars, pipeline_vars, race_vars, nops>>

StorageNext ==
    \/ \E record \in Records : StorageAppend(record)
    \/ \E value \in RecordIds, new_record \in Records : StorageUpsert(value, new_record)

StorageSpec == Init /\ [][StorageNext]_vars

\* ------------------------------------- the RecruitmentPipeline's specification
\* pipeline.add_candidate(candidate_id, ..., initial_stage, score)
AddCandidate(candidate_id, initial_stage, score) ==
    /\ \E out \in {add_candidate(candidates, candidate_id, initial_stage, score)} :
          /\ candidates' = out.candidates
          /\ pipe_last' = PipelineCall("add_candidate", candidate_id, initial_stage,
                                       score, "", out)
    /\ UNCHANGED <<flow_vars, gate_vars, store_vars, race_vars, nops>>

\* pipeline.move_candidate(candidate_id, new_stage, note)
MoveCandidate(candidate_id, new_stage, note) ==
    /\ \A i \in 1..Len(candidates) :
          (candidates[i].candidate_id = candidate_id /\ note # "")
          => Len(candidates[i].notes) < MaxNotes
    /\ \E out \in {move_candidate(candidates, candidate_id, new_stage, note)} :
          /\ candidates' = out.candidates
          /\ pipe_last' = PipelineCall("move_candidate", candidate_id, new_stage,
                                       NoScore, note, out)
    /\ UNCHANGED <<flow_vars, gate_vars, store_vars, race_vars, nops>>

\* pipeline.update_score(candidate_id, score)
UpdateScore(candidate_id, score) ==
    /\ \E out \in {update_score(candidates, candidate_id, score)} :
          /\ candidates' = out.candidates
          /\ pipe_last' = PipelineCall("update_score", candidate_id, None, score, "", out)
    /\ UNCHANGED <<flow_vars, gate_vars, store_vars, race_vars, nops>>

\* pipeline.add_note(candidate_id, note)
AddNote(candidate_id, note) ==
    /\ \A i \in 1..Len(candidates) :
          candidates[i].candidate_id = candidate_id
          => Len(candidates[i].notes) < MaxNotes
    /\ \E out \in {add_note(candidates, candidate_id, note)} :
          /\ candidates' = out.candidates
          /\ pipe_last' = PipelineCall("add_note", candidate_id, None, NoScore, note, out)
    /\ UNCHANGED <<flow_vars, gate_vars, store_vars, race_vars, nops>>

\* pipeline.get_top_candidates(limit, stage)
GetTopCandidates(limit, stage) ==
    /\ pipe_last' = [NoPipelineCall EXCEPT
                        !.op = "get_top_candidates", !.limit = limit, !.stage = stage,
                        !.pre = candidates,
                        !.result = get_top_candidates(candidates, limit, stage)]
    /\ UNCHANGED candidates
    /\ UNCHANGED <<flow_vars, gate_vars, store_vars, race_vars, nops>>

PipelineNext ==
    \/ \E candidate_id \in CandidateIds, stage \in PipelineStages,
          score \in PipelineScores \cup {NoScore} :
          AddCandidate(candidate_id, stage, score)
    \/ \E candidate_id \in CandidateIds, stage \in PipelineStages, note \in {"", "note"} :
          MoveCandidate(candidate_id, stage, note)
    \/ \E candidate_id \in CandidateIds, score \in PipelineScores :
          UpdateScore(candidate_id, score)
    \/ \E candidate_id \in CandidateIds : AddNote(candidate_id, "note")
    \/ \E limit \in 0..MaxLimit, stage \in PipelineStages \cup {None} :
          GetTopCandidates(limit, stage)

PipelineSpec == Init /\ [][PipelineNext]_vars

\* ------------------------- two concurrent resume_flow calls' specification
\* RecruitmentFlow takes no lock: two threads inside resume_flow run its
\* statements in any interleaving.  A step of a thread is one statement.
\*
\* The collaborators of the execute_flow calls before the two calls: a scorer
\* that returns a score, an analyzer that returns an analysis.
RaceInputs ==
    {in \in Inputs : /\ in.parser = ResumeDict(FALSE, FALSE)
                     /\ in.analyzer = "dict"
                     /\ in.scorer \in {FloatScore(40), FloatScore(85)}}

AllIdle == \A t \in Threads : threads[t].pc = "idle"

Goto(t, pc) == [threads EXCEPT ![t].pc = pc]

\* Both threads call resume_flow(flow_id, approved) on a flow that is PAUSED.
ResumeConcurrently(flow_id, approved) ==
    /\ AllIdle
    /\ active_flows[flow_id] # 0
    /\ heap[active_flows[flow_id]].status = PAUSED
    /\ threads' = [t \in Threads |->
                     [IdleThread EXCEPT !.pc = "281", !.flow_id = flow_id,
                                        !.approved = approved[t]]]
    /\ UNCHANGED <<flow_vars, gate_vars, store_vars, pipeline_vars, notified, nops>>

\* context = self.active_flows.get(flow_id); if not context: raise
Line281(t) ==
    /\ threads[t].pc = "281"
    /\ \E ref \in {active_flows[threads[t].flow_id]} :
          threads' = IF ref = 0
                     THEN [threads EXCEPT ![t].pc = "raised", ![t].msg = "not found"]
                     ELSE [threads EXCEPT ![t].pc = "285", ![t].context = ref]
    /\ UNCHANGED <<flow_vars, gate_vars, store_vars, pipeline_vars, notified, nops>>

\* if context.status != FlowStatus.PAUSED: raise; if not approved:
Line285(t) ==
    /\ threads[t].pc = "285"
    /\ threads' = IF heap[threads[t].context].status # PAUSED
                  THEN [threads EXCEPT ![t].pc = "raised", ![t].msg = "is not paused"]
                  ELSE [threads EXCEPT ![t].passed = TRUE,
                                       ![t].pc = IF threads[t].approved THEN "293" ELSE "289"]
    /\ UNCHANGED <<flow_vars, gate_vars, store_vars, pipeline_vars, notified, nops>>

\* context.status = FlowStatus.FAILED
Line289(t) ==
    /\ threads[t].pc = "289"
    /\ heap' = [heap EXCEPT ![threads[t].context].status = FAILED]
    /\ threads' = Goto(t, "290")
    /\ UNCHANGED <<active_flows, last, gate_vars, store_vars, pipeline_vars, notified, nops>>

\* context.errors.append("Rejected during manual review"); return context
Line290(t) ==
    /\ threads[t].pc = "290"
    /\ heap' = [heap EXCEPT ![threads[t].context].errors =
                                Append(@, "Rejected during manual review")]
    /\ threads' = Goto(t, "returned")
    /\ UNCHANGED <<active_flows, last, gate_vars, store_vars, pipeline_vars, notified, nops>>

\* context.status = FlowStatus.IN_PROGRESS
Line293(t) ==
    /\ threads[t].pc = "293"
    /\ heap' = [heap EXCEPT ![threads[t].context].status = IN_PROGRESS]
    /\ threads' = Goto(t, "250")
    /\ UNCHANGED <<active_flows, last, gate_vars, store_vars, pipeline_vars, notified, nops>>

\* _notify_stakeholders: context.stage = FlowStage.NOTIFY
Line250(t) ==
    /\ threads[t].pc = "250"
    /\ heap' = [heap EXCEPT ![threads[t].context].stage = NOTIFY]
    /\ threads' = Goto(t, "260")
    /\ UNCHANGED <<active_flows, last, gate_vars, store_vars, pipeline_vars, notified, nops>>

\* _notify_stakeholders: self.notifier.notify(notification_data), not reached
\* when context.analysis is None; what the notifier raises is caught
Line260(t) ==
    /\ threads[t].pc = "260"
    /\ notified' = IF heap[threads[t].context].analysis = None
                   THEN notified
                   ELSE notified + 1
    /\ threads' = Goto(t, "297")
    /\ UNCHANGED <<flow_vars, gate_vars, store_vars, pipeline_vars, nops>>

\* context.stage = FlowStage.COMPLETE
Line297(t) ==
    /\ threads[t].pc = "297"
    /\ heap' = [heap EXCEPT ![threads[t].context].stage = COMPLETE]
    /\ threads' = Goto(t, "298")
    /\ UNCHANGED <<active_flows, last, gate_vars, store_vars, pipeline_vars, notified, nops>>

\* context.status = FlowStatus.SUCCESS; return context
Line298(t) ==
    /\ threads[t].pc = "298"
    /\ heap' = [heap EXCEPT ![threads[t].context].status = SUCCESS]
    /\ threads' = Goto(t, "returned")
    /\ UNCHANGED <<active_flows, last, gate_vars, store_vars, pipeline_vars, notified, nops>>

\* The calls before the two threads start: start_flow and execute_flow, one
\* after the other.
StartFlowFirst(flow_id) ==
    /\ AllIdle
    /\ nops < MaxSetupOps
    /\ StartFlow(flow_id)

ExecuteFlowFirst(c, in) ==
    /\ AllIdle
    /\ nops < MaxSetupOps
    /\ ExecuteFlow(c, in)

RaceNext ==
    \/ \E flow_id \in FlowIds : StartFlowFirst(flow_id)
    \/ \E c \in 1..MaxCtx, in \in RaceInputs : ExecuteFlowFirst(c, in)
    \/ \E flow_id \in FlowIds, approved \in [Threads -> BOOLEAN] :
          ResumeConcurrently(flow_id, approved)
    \/ \E t \in Threads : Line281(t)
    \/ \E t \in Threads : Line285(t)
    \/ \E t \in Threads : Line289(t)
    \/ \E t \in Threads : Line290(t)
    \/ \E t \in Threads : Line293(t)
    \/ \E t \in Threads : Line250(t)
    \/ \E t \in Threads : Line260(t)
    \/ \E t \in Threads : Line297(t)
    \/ \E t \in Threads : Line298(t)

RaceSpec == Init /\ [][RaceNext]_vars

\* ------------------- the two score checks' specification (REVIEW and the gate)
\* The scores a context can carry into either check.
Scores == {FloatScore(v) : v \in ScoreValues} \cup {NoScore, StrScore}

\* _review_candidate(context) on a context as _score_candidate leaves it, with
\* the given score.
ReviewCandidate(score) ==
    /\ nops < MaxReviewOps
    /\ \E fr \in {_review_candidate(
                     Frame([FlowContext("f1", "job-123", "resume.pdf", IN_PROGRESS)
                                EXCEPT !.stage = SCORE, !.score = score]))} :
           last' = [NoCall EXCEPT !.op = "_review_candidate", !.flow_id = "f1",
                                  !.in = [NoInputs EXCEPT !.scorer = score],
                                  !.log = fr.log,
                                  !.raised = IF fr.exc # "" THEN "TypeError" ELSE "",
                                  !.msg = fr.exc,
                                  !.pre_status = IN_PROGRESS, !.pre_stage = SCORE]
    /\ nops' = nops + 1
    /\ UNCHANGED <<active_flows, heap>>
    /\ UNCHANGED gate_vars
    /\ UNCHANGED other_vars

ScoreNext ==
    \/ \E score \in Scores : ReviewCandidate(score)
    \/ \E score \in Scores :
           EvaluateGate("score_threshold",
                        [flow_id |-> "f1", score |-> score, years_experience |-> NoYears])

ScoreSpec == Init /\ [][ScoreNext]_vars

\* ===================================================================== claims
\* The context the last call worked on, as the call left it.
Ctx == heap[last.ctx]

Called(calls, who) == \E i \in 1..Len(calls) : calls[i] = who

CountCalls(calls, who) == Cardinality({i \in 1..Len(calls) : calls[i] = who})

\* The call was execute_flow on a context as start_flow makes it.
FreshRun ==
    /\ last.op = "execute_flow"
    /\ last.pre_status = IN_PROGRESS
    /\ last.pre_stage = INTAKE

Terminal(status) == status \in {SUCCESS, FAILED}

\* C1: start_flow then execute_flow, with the parser returning a dict that has
\* no "error" key, the analyzer and the scorer returning, and a score >= 0.7,
\* ends with status SUCCESS at stage COMPLETE, whatever the enricher and the
\* notifier did.
C1_GoodRunSucceeds ==
    ( /\ FreshRun
      /\ last.in.parser.kind = "dict"
      /\ last.in.analyzer # "raise"
      /\ last.in.scorer.kind = "float"
      /\ last.in.scorer.val >= REVIEW_THRESHOLD )
    => ( /\ last.raised = ""
         /\ Ctx.status = SUCCESS
         /\ Ctx.stage = COMPLETE )

\* C1's case: both non-critical collaborators raised in a run that succeeded.
C1_Witness ==
    /\ FreshRun
    /\ last.in.parser.kind = "dict"
    /\ last.in.analyzer # "raise"
    /\ last.in.scorer.kind = "float"
    /\ last.in.scorer.val >= REVIEW_THRESHOLD
    /\ last.seen.enricher = "raise"
    /\ last.seen.notifier = "raise"
    /\ Ctx.status = SUCCESS

\* C2: when the parser returns a dict with an "error" key, execute_flow leaves
\* the context FAILED at stage PARSE with a non-empty errors list, and does not
\* touch enriched_data, analysis and score (unset on a context start_flow made).
C2_ParseErrorDictFails ==
    [][ (last'.op = "execute_flow" /\ last'.seen.parser = "error_dict")
        => LET c == last'.ctx
           IN  /\ last'.raised = ""
               /\ heap'[c].status = FAILED
               /\ heap'[c].stage = PARSE
               /\ heap'[c].errors # <<>>
               /\ heap'[c].enriched_data = heap[c].enriched_data
               /\ heap'[c].analysis = heap[c].analysis
               /\ heap'[c].score = heap[c].score
               /\ (heap[c].stage = INTAKE
                     => /\ heap'[c].enriched_data = None
                        /\ heap'[c].analysis = None
                        /\ heap'[c].score = NoScore) ]_vars

C2_Witness ==
    /\ FreshRun
    /\ last.seen.parser = "error_dict"
    /\ Ctx.status = FAILED
    /\ Ctx.errors = <<"Parse error: bad file">>

\* C3: when the parser, the analyzer or the scorer fails in execute_flow, the
\* call ends FAILED at the failing stage with one error appended, and the failed
\* collaborator is the last one the call invoked.
FailedStage ==
    CASE last.seen.parser \in {"error_dict", "None", "raise"} -> PARSE
      [] last.seen.analyzer = "raise" -> ANALYZE
      [] last.seen.scorer = "raise" -> SCORE
      [] OTHER -> "none"

StageCollaborator(stage) ==
    CASE stage = PARSE -> "parser"
      [] stage = ANALYZE -> "analyzer"
      [] stage = SCORE -> "scorer"
      [] OTHER -> "none"

StageErrorPrefix(stage, msg) ==
    CASE stage = PARSE ->
             msg \in {"Parse error: parser raised", "Parse error: bad file",
                      "Parse error: argument of type 'NoneType' is not iterable"}
      [] stage = ANALYZE -> msg = "Analysis error: analyzer raised"
      [] stage = SCORE -> msg = "Scoring error: scorer raised"
      [] OTHER -> FALSE

C3_FailFast ==
    [][ (last'.op = "execute_flow" /\ FailedStage' # "none")
        => LET c == last'.ctx
               n == Len(heap[c].errors)
           IN  /\ last'.raised = ""
               /\ heap'[c].status = FAILED
               /\ heap'[c].stage = FailedStage'
               /\ Len(heap'[c].errors) = n + 1
               /\ SubSeq(heap'[c].errors, 1, n) = heap[c].errors
               /\ StageErrorPrefix(FailedStage', heap'[c].errors[n + 1])
               /\ last'.calls[Len(last'.calls)] = StageCollaborator(FailedStage')
               /\ ~Called(last'.calls, "notifier") ]_vars

\* C3's case: the analyzer raised after PARSE and ENRICH had run.
C3_Witness ==
    /\ FreshRun
    /\ last.seen.analyzer = "raise"
    /\ last.calls = <<"parser", "enricher", "analyzer">>
    /\ Ctx.status = FAILED
    /\ Ctx.stage = ANALYZE

\* C4: execute_flow with a score below 0.7 ends PAUSED at REVIEW without calling
\* the notifier; no call other than resume_flow invokes the notifier for a
\* PAUSED context; and a run from start_flow with a score >= 0.7 (0.7 itself
\* included) does not end PAUSED.
C4_LowScorePauses ==
    [][ /\ ( /\ last'.op = "execute_flow"
             /\ last'.seen.scorer = "float"
             /\ heap'[last'.ctx].score.val < REVIEW_THRESHOLD )
          => /\ heap'[last'.ctx].status = PAUSED
             /\ heap'[last'.ctx].stage = REVIEW
             /\ ~Called(last'.calls, "notifier")
        /\ ( /\ FreshRun'
             /\ last'.seen.scorer = "float"
             /\ heap'[last'.ctx].score.val >= REVIEW_THRESHOLD )
          => heap'[last'.ctx].status # PAUSED
        /\ \A c \in 1..Len(heap) :
             ( /\ heap[c].status = PAUSED
               /\ last'.ctx = c
               /\ last'.op # "resume_flow" )
             => ~Called(last'.calls, "notifier") ]_vars

\* C4's cases: a score under the threshold paused the flow ...
C4_Witness ==
    /\ FreshRun
    /\ last.seen.scorer = "float"
    /\ Ctx.score = FloatScore(40)
    /\ Ctx.status = PAUSED
    /\ Ctx.stage = REVIEW

\* ... and a score of exactly 0.7 did not.
C4_WitnessBoundary ==
    /\ FreshRun
    /\ Ctx.score = FloatScore(REVIEW_THRESHOLD)
    /\ Ctx.status = SUCCESS

\* C5: resume_flow(flow_id, approved=True) on a PAUSED flow returns with status
\* SUCCESS and stage COMPLETE, and invokes the notifier exactly once in the call.
C5_ResumeApprovedNotifiesOnce ==
    ( /\ last.op = "resume_flow"
      /\ last.approved
      /\ last.pre_status = PAUSED )
    => ( /\ last.raised = ""
         /\ Ctx.status = SUCCESS
         /\ Ctx.stage = COMPLETE
         /\ CountCalls(last.calls, "notifier") = 1 )

\* C6: a resume_flow call that finds the flow SUCCESS or FAILED (so also every
\* call that follows a resume_flow which ended the flow) raises the "is not
\* paused" error, with either value of approved, invokes no collaborator and
\* changes neither the flow table nor any context.
C6_ResumeTerminalRejected ==
    [][ ( /\ last'.op = "resume_flow"
          /\ active_flows[last'.flow_id] # 0
          /\ Terminal(heap[active_flows[last'.flow_id]].status) )
        => /\ last'.raised = "ValueError"
           /\ last'.msg = "is not paused"
           /\ last'.calls = <<>>
           /\ heap' = heap
           /\ active_flows' = active_flows ]_vars

\* C6's case: the second resume_flow on a flow a first resume_flow had rejected.
C6_Witness ==
    /\ last.op = "resume_flow"
    /\ last.approved
    /\ last.raised = "ValueError"
    /\ last.pre_status = FAILED
    /\ Ctx.errors = <<"Rejected during manual review">>

\* C7: resume_flow(flow_id, approved=False) on a PAUSED flow returns with status
\* FAILED and "Rejected during manual review" appended to errors, without
\* invoking the notifier; and no later call invokes the notifier for a context
\* that was rejected.
Rejected(context) ==
    \E i \in 1..Len(context.errors) : context.errors[i] = "Rejected during manual review"

C7_RejectFailsWithoutNotify ==
    [][ /\ ( /\ last'.op = "resume_flow"
             /\ ~last'.approved
             /\ active_flows[last'.flow_id] # 0
             /\ heap[active_flows[last'.flow_id]].status = PAUSED )
          => LET c == active_flows[last'.flow_id]
             IN  /\ last'.raised = ""
                 /\ last'.ctx = c
                 /\ heap'[c].status = FAILED
                 /\ heap'[c].errors = Append(heap[c].errors, "Rejected during manual review")
                 /\ ~Called(last'.calls, "notifier")
        /\ \A c \in 1..Len(heap) :
             (Rejected(heap[c]) /\ last'.ctx = c) => ~Called(last'.calls, "notifier") ]_vars

\* C7's case: a rejected flow that a later execute_flow was run on.
C7_Witness ==
    /\ last.op = "execute_flow"
    /\ Rejected(Ctx)
    /\ last.pre_status = FAILED
    /\ last.seen.parser = "dict"

\* C8: resume_flow on an unknown flow_id and resume_flow on a flow that is not
\* PAUSED both fail, with error kinds the caller can tell apart; neither invokes
\* a collaborator nor changes the flow table or a context.
C8_ResumeErrorsDistinct ==
    [][ ( /\ last'.op = "resume_flow"
          /\ \/ active_flows[last'.flow_id] = 0
             \/ heap[active_flows[last'.flow_id]].status # PAUSED )
        => /\ last'.raised # ""
           /\ last'.calls = <<>>
           /\ heap' = heap
           /\ active_flows' = active_flows
           /\ ( /\ last.op = "resume_flow"
                /\ last.raised # ""
                /\ (last.ctx = 0) # (last'.ctx = 0) )
              => last'.raised # last.raised ]_vars

\* C9: start_flow with a flow_id that is already in the flow table fails and
\* leaves the table and the context registered under that flow_id as they were.
C9_DuplicateStartRejected ==
    [][ (last'.op = "start_flow" /\ active_flows[last'.flow_id] # 0)
        => /\ last'.raised # ""
           /\ active_flows' = active_flows
           /\ heap' = heap ]_vars

\* C10: once a context is SUCCESS or FAILED no call changes any of its fields
\* or invokes a collaborator for it.
C10_TerminalIsFinal ==
    [][ \A c \in 1..Len(heap) :
          Terminal(heap[c].status)
          => /\ heap'[c] = heap[c]
             /\ (last'.ctx = c => last'.calls = <<>>) ]_vars

\* ------------------------------------------------ the order of events in a call
IsStatusEvent(e) == e.ev = "status"

IsStageEvent(e) == e.ev = "stage"

Vals(events) == [i \in 1..Len(events) |-> events[i].val]

\* The statuses the context of the last call went through: the one it had, then
\* every value the call assigned, in order.
StatusTrail == <<last.pre_status>> \o Vals(SelectSeq(last.log, IsStatusEvent))

\* The same for its stage.
StageTrail == <<last.pre_stage>> \o Vals(SelectSeq(last.log, IsStageEvent))

\* The place in the log of the call's first invocation of who (0: none).
CallAt(who) ==
    IF \E i \in 1..Len(last.log) : last.log[i] = Event("call", who)
    THEN CHOOSE i \in 1..Len(last.log) :
             /\ last.log[i] = Event("call", who)
             /\ \A j \in 1..(i - 1) : last.log[j] # Event("call", who)
    ELSE 0

OnContext == last.op \in {"execute_flow", "resume_flow"} /\ last.ctx # 0

\* C11: every change of a context's status goes along an edge of the status
\* graph PENDING -> IN_PROGRESS -> {PAUSED, FAILED, SUCCESS}, PAUSED ->
\* IN_PROGRESS: PAUSED is left only for IN_PROGRESS, and SUCCESS and FAILED are
\* entered only from IN_PROGRESS.
StatusSuccessors(status) ==
    CASE status = PENDING -> {IN_PROGRESS}
      [] status = IN_PROGRESS -> {PAUSED, FAILED, SUCCESS}
      [] status = PAUSED -> {IN_PROGRESS}
      [] OTHER -> {}

C11_StatusGraph ==
    OnContext
    => \A i \in 1..(Len(StatusTrail) - 1) :
         StatusTrail[i + 1] # StatusTrail[i]
         => StatusTrail[i + 1] \in StatusSuccessors(StatusTrail[i])

\* C12: every assignment to a context's stage leaves it where it is or moves it
\* to the next stage of INTAKE, PARSE, ENRICH, ANALYZE, SCORE, REVIEW, NOTIFY,
\* COMPLETE; the stage never goes back and never skips a stage.
StageOrder == <<INTAKE, PARSE, ENRICH, ANALYZE, SCORE, REVIEW, NOTIFY, COMPLETE>>

StageIndex(stage) == CHOOSE i \in 1..Len(StageOrder) : StageOrder[i] = stage

C12_StageForward ==
    OnContext
    => \A i \in 1..(Len(StageTrail) - 1) :
         \/ StageIndex(StageTrail[i + 1]) = StageIndex(StageTrail[i])
         \/ StageIndex(StageTrail[i + 1]) = StageIndex(StageTrail[i]) + 1

\* C13: an execute_flow call that ends SUCCESS has invoked, in this order and
\* once each, the parser, the enricher (only if the parsed resume has a LinkedIn
\* URL), the analyzer, the scorer and the notifier.
ExpectedCalls(parsed_resume) ==
    <<"parser">>
    \o (IF parsed_resume.linkedin THEN <<"enricher">> ELSE <<>>)
    \o <<"analyzer", "scorer", "notifier">>

C13_CallsOnceInOrder ==
    (last.op = "execute_flow" /\ Ctx.status = SUCCESS)
    => last.calls = ExpectedCalls(Ctx.parsed_resume)

\* C14: when the enricher raises in execute_flow, the ENRICH stage assigns no
\* status (the status is still the one the call started with, IN_PROGRESS on a
\* context from start_flow, when the analyzer is invoked), enriched_data is the
\* empty dict, and the analyzer is invoked next in the same call.
C14_EnrichFailureContinues ==
    (last.op = "execute_flow" /\ last.seen.enricher = "raise")
    => LET k == CallAt("enricher")
       IN  /\ Ctx.enriched_data = "{}"
           /\ Called(last.calls, "analyzer")
           /\ Len(last.log) >= k + 2
           /\ last.log[k + 1] = Event("stage", ANALYZE)
           /\ last.log[k + 2] = Event("call", "analyzer")
           /\ \A j \in 1..(k + 2) : ~IsStatusEvent(last.log[j])
           /\ FreshRun => last.pre_status = IN_PROGRESS

\* C14's case: the enricher raised and the run went on to the end.
C14_Witness ==
    /\ FreshRun
    /\ last.seen.enricher = "raise"
    /\ last.calls = <<"parser", "enricher", "analyzer", "scorer", "notifier">>
    /\ Ctx.enriched_data = "{}"
    /\ Ctx.status = SUCCESS

\* C15: whenever the enricher or the notifier raises in execute_flow or
\* resume_flow, the call appends to errors an entry for that failure (one that
\* is none of the fatal stages' messages), and goes on: the analyzer is invoked
\* after a failed enricher, the call ends SUCCESS after a failed notifier.
FatalMessage(msg) ==
    \/ StageErrorPrefix(PARSE, msg)
    \/ StageErrorPrefix(ANALYZE, msg)
    \/ StageErrorPrefix(SCORE, msg)
    \/ msg = "'>=' not supported between instances of 'str' and 'float'"
    \/ msg = "Rejected during manual review"

C15_NonCriticalRecorded ==
    [][ ( /\ last'.op \in {"execute_flow", "resume_flow"}
          /\ \/ last'.seen.enricher = "raise"
             \/ last'.seen.notifier = "raise" )
        => LET c == last'.ctx
           IN  /\ \E i \in (Len(heap[c].errors) + 1)..Len(heap'[c].errors) :
                     ~FatalMessage(heap'[c].errors[i])
               /\ last'.seen.enricher = "raise" => Called(last'.calls, "analyzer")
               /\ last'.seen.notifier = "raise" => heap'[c].status = SUCCESS ]_vars

\* C16: whatever the collaborators do, execute_flow raises nothing and hands
\* back the context it was given; resume_flow raises only when the flow_id is
\* unknown or the flow is not PAUSED, and then before it invoked a collaborator.
C16_NoExceptionEscapes ==
    /\ last.op = "execute_flow" => (last.raised = "" /\ last.ctx # 0)
    /\ (last.op = "resume_flow" /\ last.raised # "")
         => /\ last.ctx = 0 \/ last.pre_status # PAUSED
            /\ last.calls = <<>>

\* C16's case: the scorer returned a value that is no number; the comparison in
\* REVIEW raised and execute_flow turned it into FAILED.
C16_Witness ==
    /\ FreshRun
    /\ last.seen.scorer = "str"
    /\ last.raised = ""
    /\ Ctx.status = FAILED
    /\ Ctx.errors # <<>>

\* ... and the notifier raised in resume_flow, which returned all the same.
C16_WitnessResume ==
    /\ last.op = "resume_flow"
    /\ last.seen.notifier = "raise"
    /\ last.raised = ""
    /\ Ctx.status = SUCCESS

\* C17: after every call, a FAILED context has a non-empty errors list and is at
\* the stage its failure came from (PARSE, ANALYZE or SCORE for the message of
\* that stage's collaborator, REVIEW for a manual rejection); a context is
\* SUCCESS exactly when its stage is COMPLETE; a PAUSED context is at REVIEW.
FailureStage(msg) ==
    CASE StageErrorPrefix(PARSE, msg) -> PARSE
      [] StageErrorPrefix(ANALYZE, msg) -> ANALYZE
      [] StageErrorPrefix(SCORE, msg) -> SCORE
      [] msg = "Rejected during manual review" -> REVIEW
      [] OTHER -> "none"

C17_StatusStageConsistent ==
    \A c \in 1..Len(heap) :
       /\ heap[c].status = FAILED
            => /\ heap[c].errors # <<>>
               /\ heap[c].stage = FailureStage(heap[c].errors[Len(heap[c].errors)])
       /\ heap[c].status = SUCCESS <=> heap[c].stage = COMPLETE
       /\ heap[c].status = PAUSED => heap[c].stage = REVIEW

\* ------------------------------------------------------------------ GateChain
\* The last call was chain.evaluate and it returned.
ChainEvaluated == gate_last.op = "evaluate" /\ gate_last.raised = ""

Results == gate_last.result.gate_results

StatusOf(results) == [i \in 1..Len(results) |-> results[i].status]

\* How often the gates chain.gates[1..n] name the gate g.
Occurrences(g, n) == Cardinality({i \in 1..n : chain.gates[i] = g})

\* The call evaluated chain.gates[1..n], in that order, and no other gate: the
\* results name them, each gate's history grew by one entry per evaluation, and
\* a gate outside that prefix is as it was before the call.
EvaluatedPrefix(n) ==
    /\ n <= Len(chain.gates)
    /\ \A i \in 1..n : Results[i].gate_id = chain.gates[i]
    /\ \A g \in GateIds :
         /\ Len(gates[g].history) = Len(gate_last.pre[g].history) + Occurrences(g, n)
         /\ Occurrences(g, n) = 0 => gates[g] = gate_last.pre[g]

\* C18: a chain with require_all=True evaluates its gates in list order up to and
\* including the first whose result is not APPROVED, and no gate after it;
\* approved is true only if (in fact exactly if) every result is APPROVED.
C18_AndShortCircuit ==
    (ChainEvaluated /\ chain.require_all)
    => LET n == Len(Results)
       IN  /\ EvaluatedPrefix(n)
           /\ \A i \in 1..(n - 1) : Results[i].status = APPROVED
           /\ n < Len(chain.gates) => (n >= 1 /\ Results[n].status # APPROVED)
           /\ gate_last.result.approved
                <=> \A i \in 1..n : Results[i].status = APPROVED
           /\ gate_last.result.logic = "AND"

\* C18's cases: [APPROVED, REJECTED] is not approved after two evaluations ...
C18_Witness ==
    /\ ChainEvaluated
    /\ chain.require_all
    /\ Len(chain.gates) = 2
    /\ StatusOf(Results) = <<APPROVED, REJECTED>>
    /\ ~gate_last.result.approved

\* ... and [REJECTED, APPROVED] is not approved after one: the second gate, which
\* would have approved, was not evaluated.
C18_WitnessShortCircuit ==
    /\ ChainEvaluated
    /\ chain = GateChain("chain", <<"experience_check", "score_threshold">>, TRUE)
    /\ gate_last.context.score = FloatScore(70)
    /\ StatusOf(Results) = <<REJECTED>>
    /\ ~gate_last.result.approved
    /\ gates["score_threshold"] = gate_last.pre["score_threshold"]

\* C19: a chain with require_all=False evaluates its gates in list order up to
\* and including the first whose result is APPROVED, and no gate after it;
\* approved is true exactly when some result is APPROVED, and when none is,
\* every gate of the list has been evaluated.
C19_OrShortCircuit ==
    (ChainEvaluated /\ ~chain.require_all)
    => LET n == Len(Results)
       IN  /\ EvaluatedPrefix(n)
           /\ \A i \in 1..(n - 1) : Results[i].status # APPROVED
           /\ n < Len(chain.gates) => (n >= 1 /\ Results[n].status = APPROVED)
           /\ gate_last.result.approved
                <=> \E i \in 1..n : Results[i].status = APPROVED
           /\ ~gate_last.result.approved => n = Len(chain.gates)
           /\ gate_last.result.logic = "OR"

\* C19's cases: the second of three gates approved and the third was skipped ...
C19_Witness ==
    /\ ChainEvaluated
    /\ ~chain.require_all
    /\ Len(chain.gates) = 3
    /\ StatusOf(Results) = <<REJECTED, APPROVED>>
    /\ gate_last.result.approved

\* ... and no gate of three approved, so all three were evaluated.
C19_WitnessNone ==
    /\ ChainEvaluated
    /\ ~chain.require_all
    /\ Len(chain.gates) = 3
    /\ Len(Results) = 3
    /\ ~gate_last.result.approved

\* C20: pending is true exactly when a gate the call evaluated returned PENDING;
\* a ManualReviewGate behind the point where the chain stopped has the pending
\* reviews and the history it had before the call.
C20_PendingOnlyFromEvaluated ==
    ChainEvaluated
    => LET n == Len(Results)
       IN  /\ gate_last.result.pending
                <=> \E i \in 1..n : Results[i].status = GATE_PENDING
           /\ \A i \in 1..n : chain.gates[i] = Results[i].gate_id
           /\ \A g \in GateIds :
                ( /\ gates[g].class = "ManualReviewGate"
                  /\ \A i \in 1..n : chain.gates[i] # g )
                => /\ gates[g].pending_reviews = gate_last.pre[g].pending_reviews
                   /\ gates[g].history = gate_last.pre[g].history

\* C20's cases: the ManualReviewGate lay behind a rejecting gate of an AND chain
\* and recorded nothing ...
C20_Witness ==
    /\ ChainEvaluated
    /\ chain = GateChain("chain", <<"score_threshold", "hiring_manager_review">>, TRUE)
    /\ gate_last.context.flow_id = "f1"
    /\ StatusOf(Results) = <<REJECTED>>
    /\ ~gate_last.result.pending
    /\ gates["hiring_manager_review"].pending_reviews = {}

\* ... and it was reached, and the result is pending with the review recorded.
C20_WitnessPending ==
    /\ ChainEvaluated
    /\ chain = GateChain("chain", <<"score_threshold", "hiring_manager_review">>, TRUE)
    /\ gate_last.context.flow_id = "f1"
    /\ StatusOf(Results) = <<APPROVED, GATE_PENDING>>
    /\ gate_last.result.pending
    /\ ~gate_last.result.approved
    /\ gates["hiring_manager_review"].pending_reviews = {"f1"}

\* -------------------------------------------------------------- single gates
\* The last call was evaluate on the gate g itself.
GateEvaluated(g) == gate_last.op = "gate.evaluate" /\ gate_last.gate_id = g

\* C21: ScoreThresholdGate.evaluate returns APPROVED exactly when the context
\* has a (numeric) score >= threshold, the threshold itself included, REJECTED
\* for a lower score, REJECTED with reason "Score not available" for no score;
\* it returns no other status, and it raises only on a score that is no number.
C21_ScoreGateDecision ==
    GateEvaluated("score_threshold")
    => LET score == gate_last.context.score
           result == gate_last.review
       IN  /\ gate_last.raised # "" <=> score.kind = "str"
           /\ score.kind = "float"
                => /\ result.status = APPROVED <=> score.val >= DEFAULT_THRESHOLD
                   /\ result.status = REJECTED <=> score.val < DEFAULT_THRESHOLD
                   /\ result.reason # "Score not available"
           /\ score.kind = "None"
                => /\ result.status = REJECTED
                   /\ result.reason = "Score not available"
           /\ gate_last.raised = ""
                => /\ result.status \in {APPROVED, REJECTED}
                   /\ result.gate_id = "score_threshold"
                   /\ result.evaluated_by = "system"
                   /\ gates["score_threshold"].history
                        = Append(gate_last.pre["score_threshold"].history, result)

\* C21's cases: the score equal to the threshold is APPROVED ...
C21_Witness ==
    /\ GateEvaluated("score_threshold")
    /\ gate_last.context.score = FloatScore(DEFAULT_THRESHOLD)
    /\ gate_last.review.status = APPROVED

\* ... and a context without a score is REJECTED, not an error.
C21_WitnessNoScore ==
    /\ GateEvaluated("score_threshold")
    /\ gate_last.context.score = NoScore
    /\ gate_last.raised = ""
    /\ gate_last.review.status = REJECTED
    /\ gate_last.review.reason = "Score not available"

\* C22: ManualReviewGate.evaluate always returns PENDING; submit_review raises
\* the "not authorized" error for a reviewer outside the gate's reviewers and,
\* for one of them, the "No pending review" error when the flow_id has no
\* pending review; a submit_review that raises leaves the gate as it was.
SubmitFailed == gate_last.op = "submit_review" /\ gate_last.raised # ""

ManualGate == gates["hiring_manager_review"]

ManualGateBefore == gate_last.pre["hiring_manager_review"]

C22_ManualGateErrors ==
    /\ GateEvaluated("hiring_manager_review")
         => /\ gate_last.raised = ""
            /\ gate_last.review.status = GATE_PENDING
            /\ PendingKey(gate_last.context) \in ManualGate.pending_reviews
    /\ gate_last.op = "submit_review"
         => /\ gate_last.reviewer \notin ManualGateBefore.reviewers
                 => (gate_last.raised = "ValueError" /\ gate_last.msg = "not authorized")
            /\ ( /\ gate_last.reviewer \in ManualGateBefore.reviewers
                 /\ gate_last.flow_id \notin ManualGateBefore.pending_reviews )
                 => (gate_last.raised = "ValueError" /\ gate_last.msg = "No pending review")
            /\ ( /\ gate_last.reviewer \in ManualGateBefore.reviewers
                 /\ gate_last.flow_id \in ManualGateBefore.pending_reviews )
                 => gate_last.raised = ""
    /\ SubmitFailed => gates = gate_last.pre

\* C22's cases: an unauthorized reviewer on a flow whose review is pending ...
C22_Witness ==
    /\ SubmitFailed
    /\ gate_last.reviewer = "stranger"
    /\ gate_last.flow_id = "f1"
    /\ gate_last.msg = "not authorized"
    /\ ManualGate.pending_reviews = {"f1"}
    /\ Len(ManualGate.history) = 1

\* ... and an authorized reviewer on a flow with none, while another is pending.
C22_WitnessNotFound ==
    /\ SubmitFailed
    /\ gate_last.reviewer = "team_lead"
    /\ gate_last.flow_id = "f2"
    /\ gate_last.msg = "No pending review"
    /\ ManualGate.pending_reviews = {"f1"}

\* C23: a submit_review that succeeds returns APPROVED or REJECTED as approved
\* says, by the reviewer, removes flow_id and nothing else from the pending
\* reviews and appends the result to the history; a submit_review for the same
\* flow_id that follows it directly, by an authorized reviewer, raises the "No
\* pending review" error.
C23_SingleShot ==
    [][ /\ (gate_last'.op = "submit_review" /\ gate_last'.raised = "")
          => LET g == gate_last'.gate_id
             IN  /\ gate_last'.review.status
                      = (IF gate_last'.approved THEN APPROVED ELSE REJECTED)
                 /\ gate_last'.review.evaluated_by = gate_last'.reviewer
                 /\ gate_last'.flow_id \in gates[g].pending_reviews
                 /\ gates'[g].pending_reviews
                      = gates[g].pending_reviews \ {gate_last'.flow_id}
                 /\ gates'[g].history = Append(gates[g].history, gate_last'.review)
                 /\ \A h \in GateIds \ {g} : gates'[h] = gates[h]
        /\ ( /\ gate_last.op = "submit_review"
             /\ gate_last.raised = ""
             /\ gate_last'.op = "submit_review"
             /\ gate_last'.flow_id = gate_last.flow_id
             /\ gate_last'.reviewer \in gates[gate_last'.gate_id].reviewers )
          => /\ gate_last'.raised = "ValueError"
             /\ gate_last'.msg = "No pending review" ]_vars

\* C23's case: f1 and f2 were pending, f1 was approved and f2 is still pending.
C23_Witness ==
    /\ gate_last.op = "submit_review"
    /\ gate_last.raised = ""
    /\ gate_last.flow_id = "f1"
    /\ gate_last.review.status = APPROVED
    /\ ManualGateBefore.pending_reviews = {"f1", "f2"}
    /\ ManualGate.pending_reviews = {"f2"}

\* ... and the second submit_review for f1, after one that had rejected it.
C23_WitnessSecond ==
    /\ SubmitFailed
    /\ gate_last.flow_id = "f1"
    /\ gate_last.reviewer = "hiring_manager"
    /\ gate_last.msg = "No pending review"
    /\ Len(ManualGate.history) = 2
    /\ ManualGate.history[2].status = REJECTED

\* C24: every result of the ConditionalGate is APPROVED when the predicate
\* returned true, REJECTED when it returned false, and REJECTED when it raised;
\* a chain evaluation raises only when a ScoreThresholdGate met a score that is
\* no number, never because of the predicate.
C24_ConditionalGateNeverRaises ==
    /\ ChainEvaluated
         => \A i \in 1..Len(Results) :
              Results[i].gate_id = "experience_check"
              => LET passed == condition_func(gate_last.context)
                 IN  /\ passed = "True" => Results[i].status = APPROVED
                     /\ passed = "False" => Results[i].status = REJECTED
                     /\ passed = "raise"
                          => /\ Results[i].status = REJECTED
                             /\ Results[i].reason = "Condition evaluation error"
    /\ (gate_last.op = "evaluate" /\ gate_last.raised # "")
         => /\ gate_last.context.score.kind = "str"
            /\ \E i \in 1..Len(chain.gates) : chain.gates[i] = "score_threshold"

\* C24's case: the predicate raised in a chain of the ConditionalGate and the
\* ManualReviewGate, and the chain returned a result.
C24_Witness ==
    /\ ChainEvaluated
    /\ chain = GateChain("chain", <<"experience_check", "hiring_manager_review">>, FALSE)
    /\ condition_func(gate_last.context) = "raise"
    /\ gate_last.context.score = StrScore
    /\ StatusOf(Results) = <<REJECTED, GATE_PENDING>>
    /\ Results[1].reason = "Condition evaluation error"

\* C28: no result of GateChain.evaluate has approved and pending both true.
C28_NeverApprovedAndPending ==
    ChainEvaluated => ~(gate_last.result.approved /\ gate_last.result.pending)

\* C29: for every score, _review_candidate lets the flow pass (it neither
\* pauses nor raises) exactly when the default score gate (threshold 0.7)
\* returns APPROVED for a context with that score.
ReviewPassed ==
    /\ last.raised = ""
    /\ \A i \in 1..Len(last.log) : last.log[i] # Event("status", PAUSED)

C29_ReviewMatchesScoreGate ==
    ( /\ last.op = "_review_candidate"
      /\ GateEvaluated("score_threshold")
      /\ gates["score_threshold"].threshold = REVIEW_THRESHOLD
      /\ gate_last.context.score = last.in.scorer )
    => ( ReviewPassed
         <=> (gate_last.raised = "" /\ gate_last.review.status = APPROVED) )

\* C29's cases: both checks let the score 0.7 pass ...
C29_Witness ==
    /\ last.op = "_review_candidate"
    /\ GateEvaluated("score_threshold")
    /\ last.in.scorer = FloatScore(REVIEW_THRESHOLD)
    /\ gate_last.context.score = FloatScore(REVIEW_THRESHOLD)
    /\ ReviewPassed
    /\ gate_last.review.status = APPROVED

\* ... and both hold back the score 0.
C29_WitnessZero ==
    /\ last.op = "_review_candidate"
    /\ GateEvaluated("score_threshold")
    /\ last.in.scorer = FloatScore(0)
    /\ gate_last.context.score = FloatScore(0)
    /\ ~ReviewPassed
    /\ gate_last.review.status = REJECTED

\* -------------------------------------------------------------------- Storage
NoRecord == [id |-> "", stage |-> ""]

\* Replaying records and keeping the last record per id: the record kept for k.
Replay(records, k) ==
    LET at == {i \in 1..Len(records) : records[i].id = k}
    IN  IF at = {} THEN NoRecord
        ELSE records[CHOOSE i \in at : \A j \in at : j <= i]

\* The record most recently written (by append or upsert) with id k.
Written(k) == Replay([i \in 1..Len(store_calls) |-> store_calls[i].record], k)

\* Every upsert so far was called as PipelineManager calls it:
\* upsert('id', rec.id, asdict(rec)).
Keyed ==
    \A i \in 1..Len(store_calls) :
      store_calls[i].op = "upsert" => store_calls[i].value = store_calls[i].record.id

LastStoreCall == store_calls[Len(store_calls)]

\* What the last call, an upsert, did to the file: it replaced the records
\* whose id equals value, appended new_record when there were none, and left
\* every other record as and where it was.
UpsertEffect ==
    (store_calls # <<>> /\ LastStoreCall.op = "upsert")
    => LET before == load_all(LastStoreCall.pre)
           after == load_all(file)
           value == LastStoreCall.value
           matching == {i \in 1..Len(before) : before[i].id = value}
       IN  IF matching = {}
           THEN after = Append(before, LastStoreCall.record)
           ELSE /\ Len(after) = Len(before)
                /\ \A i \in 1..Len(before) :
                     after[i] = (IF i \in matching THEN LastStoreCall.record
                                 ELSE before[i])

\* C25 as stated: after any appends and upserts, the last record per id in the
\* file is the record most recently written for that id, and an upsert has the
\* effect described.
C25_LastRecordWins ==
    /\ \A k \in RecordIds : Replay(load_all(file), k) = Written(k)
    /\ UpsertEffect

\* C25, amended: the same, when every upsert's new_record carries value as its
\* id.
C25_LastRecordWinsKeyed ==
    /\ Keyed => \A k \in RecordIds : Replay(load_all(file), k) = Written(k)
    /\ UpsertEffect

\* C25's case: an id appended twice, then upserted; both records are replaced.
C25_Witness ==
    /\ Keyed
    /\ Len(store_calls) = 3
    /\ LastStoreCall.op = "upsert"
    /\ LastStoreCall.value = "a"
    /\ LastStoreCall.record.stage = "enriched"
    /\ load_all(LastStoreCall.pre) = << [id |-> "a", stage |-> "new"],
                                        [id |-> "a", stage |-> "analyzed"] >>
    /\ load_all(file) = << LastStoreCall.record, LastStoreCall.record >>

\* ... and an upsert that leaves the record of another id in front of it.
C25_WitnessOtherKey ==
    /\ Keyed
    /\ store_calls # <<>>
    /\ LastStoreCall.op = "upsert"
    /\ load_all(file) = << [id |-> "b", stage |-> "new"],
                           [id |-> "a", stage |-> "analyzed"] >>
    /\ load_all(LastStoreCall.pre) = << [id |-> "b", stage |-> "new"],
                                        [id |-> "a", stage |-> "new"] >>

\* -------------------------------------------------------- RecruitmentPipeline
\* The last call on the pipeline raised.
Refused == pipe_last.msg # ""

\* C26: an operation of the pipeline that raised left the candidates table as
\* it was; add_candidate with a candidate_id already in the table raises
\* "already exists" and the candidate keeps its data; move_candidate,
\* update_score and add_note with a candidate_id not in the table raise
\* "not found" and the table has no such candidate afterwards.
C26_RefusedLeavesTable ==
    /\ Refused => candidates = pipe_last.pre
    /\ (pipe_last.op = "add_candidate" /\ HasCandidate(pipe_last.pre, pipe_last.candidate_id))
         => /\ pipe_last.msg = "already exists in pipeline"
            /\ candidates = pipe_last.pre
    /\ ( /\ pipe_last.op \in {"move_candidate", "update_score", "add_note"}
         /\ ~HasCandidate(pipe_last.pre, pipe_last.candidate_id) )
         => /\ pipe_last.msg = "not found in pipeline"
            /\ candidates = pipe_last.pre
            /\ ~HasCandidate(candidates, pipe_last.candidate_id)

\* C26's cases: a second add_candidate of candidate_1 with another stage and
\* score, the first one's data kept ...
C26_Witness ==
    /\ pipe_last.op = "add_candidate"
    /\ Refused
    /\ pipe_last.candidate_id = "candidate_1"
    /\ pipe_last.score = FloatScore(85)
    /\ pipe_last.stage = SCREENING
    /\ candidates = <<CandidateStatus("candidate_1", SOURCING, NoScore)>>

\* ... and update_score of a candidate that is not in a table with another.
C26_WitnessNotFound ==
    /\ pipe_last.op = "update_score"
    /\ Refused
    /\ pipe_last.candidate_id = "candidate_2"
    /\ Len(candidates) = 1
    /\ candidates[1].candidate_id = "candidate_1"

\* The last call was get_top_candidates.
TopReturned == pipe_last.op = "get_top_candidates"

\* A candidate get_top_candidates(limit, stage) may return: it has a score and
\* is in the stage asked for.
Eligible(c) ==
    /\ c.score # NoScore
    /\ pipe_last.stage # None => c.current_stage = pipe_last.stage

TopCandidatesOk ==
    LET top == pipe_last.result
    IN  /\ Len(top) <= pipe_last.limit
        /\ \A i \in 1..Len(top) :
             /\ \E j \in 1..Len(candidates) : candidates[j] = top[i]
             /\ Eligible(top[i])
        /\ \A i \in 1..Len(top) : \A j \in 1..Len(top) :
             i < j => top[i].score.val >= top[j].score.val
        /\ \A j \in 1..Len(candidates) :
             ( /\ Eligible(candidates[j])
               /\ \A i \in 1..Len(top) : top[i] # candidates[j] )
             => \A i \in 1..Len(top) : candidates[j].score.val <= top[i].score.val

\* C27: what get_top_candidates(limit, stage) returned has at most limit
\* candidates, each of them a candidate with a score that is in the stage asked
\* for, in non-increasing order of score, and no candidate with a score (in that
\* stage) that was left out has a higher score than one returned.
C27_TopCandidates == TopReturned => TopCandidatesOk

\* C27's cases: two scored candidates, limit 1: the better one is returned ...
C27_Witness ==
    /\ TopReturned
    /\ pipe_last.limit = 1
    /\ Len(candidates) = 2
    /\ candidates[1].score = FloatScore(70)
    /\ candidates[2].score = FloatScore(85)
    /\ pipe_last.result = <<candidates[2]>>

\* ... and with a stage given, the better candidate is in another stage and a
\* candidate of that stage has no score.
C27_WitnessStage ==
    /\ TopReturned
    /\ pipe_last.limit = MaxLimit
    /\ pipe_last.stage = SCREENING
    /\ Len(candidates) = 2
    /\ candidates[1].current_stage = SCREENING
    /\ candidates[1].score = FloatScore(0)
    /\ candidates[2].current_stage = SOURCING
    /\ candidates[2].score = FloatScore(85)
    /\ pipe_last.result = <<candidates[1]>>

\* ------------------------------------------------- concurrent resume_flow calls
\* The context the two threads were called on.
RacedContext == heap[active_flows[threads["t1"].flow_id]]

BothFinished == \A t \in Threads : threads[t].pc \in {"returned", "raised"}

\* C30: of two concurrent resume_flow calls on the same PAUSED flow at most one
\* gets past the PAUSED check, the notifier is invoked at most once, and when
\* both have finished the flow is not SUCCESS with "Rejected during manual
\* review" among its errors.
C30_OneResumeWins ==
    /\ Cardinality({t \in Threads : threads[t].passed}) <= 1
    /\ notified <= 1
    /\ BothFinished
         => ~ ( /\ RacedContext.status = SUCCESS
                /\ \E i \in 1..Len(RacedContext.errors) :
                     RacedContext.errors[i] = "Rejected during manual review" )

\* What the interleavings do reach: both calls past the check, ...
BothPassed == \A t \in Threads : threads[t].passed

\* ... the notifier invoked by both, ...
NotifiedTwice == BothFinished /\ notified = 2

\* ... and a flow approved by one call and rejected by the other that ends
\* SUCCESS with the rejection among its errors.
SuccessAfterRejection ==
    /\ BothFinished
    /\ RacedContext.status = SUCCESS
    /\ RacedContext.errors = <<"Rejected during manual review">>

\* The interleaving in which one call runs to its end before the other one
\* reads the status: the second call raises "is not paused".
SecondCallRefused ==
    /\ BothFinished
    /\ threads["t1"].pc = "returned"
    /\ threads["t2"].msg = "is not paused"

====
